---- MODULE Spec2Model ----
(***************************************************************************)
(* Jira context server: the environment loader (utils/env-loader), the     *)
(* process bootstrap (index.ts) and the Jira API client (JiraService).     *)
(*                                                                         *)
(* A value of process.env, or of a key of the parsed .env source, is an    *)
(* optional string: <<>> when the key is undefined, <<s>> when it holds    *)
(* the string s (which may be the empty string).                           *)
(***************************************************************************)
EXTENDS Integers, Sequences, FiniteSets, TLC

VARIABLES
    env,        \* process.env restricted to the Jira keys
    file,       \* the backing .env source: [exists, vars]
    boot,       \* position of the bootstrap script of index.ts
    svc,        \* the JiraService instance: [made, baseUrl, username, password]
    svcCfg,     \* history: Credentials of the last successful getJiraConfig() of the constructor / reloadConfig
    lastOp,     \* the operation that ran last, with its arguments and result
    tasks,      \* concurrent invocations of the public JiraService operations
    logsDir,    \* whether <cwd>/logs exists
    running,    \* the call that holds the JavaScript thread (0: the event loop is idle)
    calls       \* concurrent loader calls, statement by statement

vars == <<env, file, boot, svc, svcCfg, lastOp, tasks, logsDir, running, calls>>

----------------------------------------------------------------------------
(* Values *)

Keys == {"JIRA_BASE_URL", "JIRA_USERNAME", "JIRA_API_TOKEN"}

\* default value of varsToReset
JiraVars == {"JIRA_BASE_URL", "JIRA_USERNAME", "JIRA_API_TOKEN"}

\* sample strings a key may hold
Strings == {"", "u", "tk"}

Absent == <<>>

Slot == {Absent} \cup {<<s>> : s \in Strings}

Envs == [Keys -> Slot]

NoVars == [k \in Keys |-> Absent]

\* a source that is missing parses to nothing
Files == {[exists |-> FALSE, vars |-> NoVars]} \cup {[exists |-> TRUE, vars |-> v] : v \in Envs}

\* JavaScript truthiness of an optional string: !x is true of undefined and of ''
Truthy(v) == v # Absent /\ v[1] # ""

----------------------------------------------------------------------------
(* utils/env-loader *)

\* varsToReset.forEach(varName => delete process.env[varName])
Deleted_Kept(e, keys) == e

Deleted(e, keys) == [k \in Keys |-> IF k \in keys THEN Absent ELSE e[k]]

\* dotenv.config({ path }): a missing source is an error result and sets nothing;
\* a parsed key is set only when process.env does not hold it already
DotenvConfig_Override(e, f) == IF f.exists THEN [k \in Keys |-> IF f.vars[k] # Absent THEN f.vars[k] ELSE e[k]] ELSE e

DotenvConfig(e, f) == IF f.exists THEN [k \in Keys |-> IF e[k] = Absent THEN f.vars[k] ELSE e[k]] ELSE e

\* reloadEnv returns process.env itself
reloadEnv(e, f, keys) == DotenvConfig(Deleted(e, keys), f)

\* process.env[varName] || defaultValue
getEnvVar(e, f, varName, defaultValue) ==
    LET e2 == reloadEnv(e, f, {varName})
    IN  [env |-> e2, val |-> IF Truthy(e2[varName]) THEN e2[varName] ELSE defaultValue]

\* if (!baseUrl || !username || !apiToken) throw
ConfigMissing_UrlOnly(baseUrl, username, apiToken) == ~Truthy(baseUrl)

ConfigMissing(baseUrl, username, apiToken) == ~Truthy(baseUrl) \/ ~Truthy(username) \/ ~Truthy(apiToken)

\* a thrown getJiraConfig: no Credentials
NoCfg == [threw |-> TRUE, baseUrl |-> "", username |-> "", apiToken |-> ""]

Str(v) == IF v = Absent THEN "" ELSE v[1]

\* the three reads of getJiraConfig, its check, and its throw or its return value
credentials(e) ==
    LET baseUrl == e["JIRA_BASE_URL"]
        username == e["JIRA_USERNAME"]
        apiToken == e["JIRA_API_TOKEN"]
    IN  IF ConfigMissing(baseUrl, username, apiToken)
        THEN NoCfg
        ELSE [threw |-> FALSE, baseUrl |-> Str(baseUrl), username |-> Str(username), apiToken |-> Str(apiToken)]

getJiraConfig(e, f) ==
    LET e2 == reloadEnv(e, f, JiraVars)
    IN  [env |-> e2, cfg |-> credentials(e2)]

----------------------------------------------------------------------------
(* services/jira: JiraService, its configuration and the request it builds *)

\* Buffer.from(string): the UTF-8 bytes of the strings the model uses
Utf8(s) ==
    CASE s = "" -> <<>>
      [] s = "u" -> <<117>>
      [] s = "tk" -> <<116, 107>>
      [] s = ":" -> <<58>>

B64Alphabet ==
    <<"A", "B", "C", "D", "E", "F", "G", "H", "I", "J", "K", "L", "M",
      "N", "O", "P", "Q", "R", "S", "T", "U", "V", "W", "X", "Y", "Z",
      "a", "b", "c", "d", "e", "f", "g", "h", "i", "j", "k", "l", "m",
      "n", "o", "p", "q", "r", "s", "t", "u", "v", "w", "x", "y", "z",
      "0", "1", "2", "3", "4", "5", "6", "7", "8", "9", "+", "/">>

B64Char(n) == B64Alphabet[n + 1]

\* Buffer.toString('base64'): three bytes to four characters, '=' padding
RECURSIVE Base64(_)
Base64(b) ==
    IF Len(b) = 0 THEN ""
    ELSE IF Len(b) = 1
    THEN B64Char(b[1] \div 4) \o B64Char((b[1] % 4) * 16) \o "=="
    ELSE IF Len(b) = 2
    THEN B64Char(b[1] \div 4) \o B64Char((b[1] % 4) * 16 + b[2] \div 16)
            \o B64Char((b[2] % 16) * 4) \o "="
    ELSE B64Char(b[1] \div 4) \o B64Char((b[1] % 4) * 16 + b[2] \div 16)
            \o B64Char((b[2] % 16) * 4 + b[3] \div 64) \o B64Char(b[3] % 64)
            \o Base64(SubSeq(b, 4, Len(b)))

\* Buffer.from(`${username}:${password}`).toString('base64')
authStr(s) == Base64(Utf8(s.username) \o Utf8(":") \o Utf8(s.password))

\* no request body
NoData == <<>>

NoReq == [method |-> "", url |-> "", auth |-> "", data |-> NoData]

\* the axios config of request(endpoint, method, data)
RequestConfig(s, endpoint, method, data) ==
    [method |-> method,
     url |-> s.baseUrl \o endpoint,
     auth |-> "Basic " \o authStr(s),
     data |-> IF method = "POST" THEN data ELSE NoData]

\* this.baseUrl = jiraConfig.baseUrl; this.auth = { username, password: apiToken }
Configured_UrlOnly(s, cfg) == [s EXCEPT !.made = TRUE, !.baseUrl = cfg.baseUrl]

Configured(s, cfg) == [made |-> TRUE, baseUrl |-> cfg.baseUrl, username |-> cfg.username, password |-> cfg.apiToken]

\* default of the maxResults parameter
DefaultMaxResults == 50

\* the fixed field projection of both search helpers
SearchFields == <<"summary", "description", "status", "issuetype", "priority", "assignee", "project">>

\* getAssignedIssues: projectKey ? `... AND project = ${projectKey} ...` : '...'
assignedJql_NoProject(projectKey) == "assignee = currentUser() ORDER BY updated DESC"

assignedJql(projectKey) ==
    IF Truthy(projectKey)
    THEN "assignee = currentUser() AND project = " \o projectKey[1] \o " ORDER BY updated DESC"
    ELSE "assignee = currentUser() ORDER BY updated DESC"

\* getIssuesByType: the same choice on projectKey
typeJql(issueType, projectKey) ==
    IF Truthy(projectKey)
    THEN "issuetype = \"" \o issueType \o "\" AND project = " \o projectKey[1] \o " ORDER BY updated DESC"
    ELSE "issuetype = \"" \o issueType \o "\" ORDER BY updated DESC"

\* a parameter with a default takes it only when the argument is undefined
OrDefault(arg, dflt) == IF arg = Absent THEN dflt ELSE arg[1]

SearchParams(jql, maxResults) == [jql |-> jql, maxResults |-> maxResults, fields |-> SearchFields]

\* axios rejects a response whose status is outside 2xx (its default validateStatus)
Is2xx(status) == status >= 200 /\ status < 300

\* (error.response.data)?.errorMessages?.[0] || "Unknown error"
\* data: <<>> for no body, else <<[errorMessages |-> <<>> or <<array>>]>>
errMessage_Always(data) == "Unknown error"

errMessage(data) ==
    IF data = Absent THEN "Unknown error"
    ELSE IF data[1].errorMessages = Absent THEN "Unknown error"
    ELSE IF Len(data[1].errorMessages[1]) = 0 THEN "Unknown error"
    ELSE IF data[1].errorMessages[1][1] = "" THEN "Unknown error"
    ELSE data[1].errorMessages[1][1]

\* error instanceof AxiosError && error.response
hasResponse_AnyAxios(r) == r.axios

hasResponse(r) == r.axios /\ r.status # Absent

NoResult == [kind |-> "none", value |-> Absent, shape |-> "", status |-> Absent, err |-> "", message |-> ""]

Returned(data) == [NoResult EXCEPT !.kind = "returned", !.value = data]

\* throw { status, err } as JiraError
JiraError(status, err) == [NoResult EXCEPT !.kind = "threw", !.shape = "JiraError", !.status = status, !.err = err]

\* throw new Error(message): an object with a message and no status
PlainError(message) == [NoResult EXCEPT !.kind = "threw", !.shape = "Error", !.message = message]

NoResp == [axios |-> FALSE, status |-> Absent, data |-> Absent, message |-> ""]

IdleTask == [pc |-> "idle", op |-> "", issueType |-> "", projectKey |-> Absent, maxResults |-> Absent,
             req |-> NoReq, resp |-> NoResp, result |-> NoResult,
             http |-> 0, logCalls |-> 0, written |-> 0, reloads |-> 0]

\* the op of a public operation up to its await: one axios call is in flight
Started(op, issueType, projectKey, maxResults, req) ==
    [IdleTask EXCEPT !.pc = "awaiting", !.op = op, !.issueType = issueType, !.projectKey = projectKey,
                     !.maxResults = maxResults, !.req = req, !.http = 1]

\* the catch block of request(): the error is thrown to the caller, nothing is logged
Caught_Retry(task, r) ==
    IF task.http < 2
    THEN [task EXCEPT !.http = @ + 1]
    ELSE [IdleTask EXCEPT !.pc = "done", !.resp = r, !.http = task.http,
                          !.result = PlainError("Failed to make request to Jira API: " \o r.message)]

Caught(task, r) ==
    [IdleTask EXCEPT
        !.pc = "done", !.resp = r, !.http = task.http,
        !.result = IF hasResponse(r)
                   THEN JiraError(r.status, errMessage(r.data))
                   ELSE PlainError("Failed to make request to Jira API: " \o r.message)]

\* return response.data, then logResponseToFile(endpoint, response) and return response;
\* fsError names the fs call that throws: "mkdirSync", "writeFileSync" or "" for none
Logged(task, r, fsError) ==
    [IdleTask EXCEPT
        !.pc = "done", !.resp = r, !.http = task.http,
        !.logCalls = task.logCalls + 1,
        !.written = IF fsError = "" THEN task.written + 1 ELSE task.written,
        !.result = IF fsError = "" THEN Returned(r.data) ELSE PlainError(fsError)]

\* concurrent loader calls the model follows
MaxCalls == 2

Calls == 1..MaxCalls

NoRead == [cfg |-> NoCfg, val |-> Absent]

IdleCall == [pc |-> "idle", fn |-> "", keys |-> {}, expect |-> NoRead, result |-> NoRead]

IdleCalls == [c \in Calls |-> IdleCall]

\* reloadEnv, getEnvVar, getJiraConfig and reloadConfig are synchronous: no await
\* between their statements, so the caller keeps the thread until it returns;
\* request() gives the thread up at its await of axios
threadAfter_Await(c, pc) == 0

threadAfter(c, pc) == IF pc \in {"return", "await"} THEN 0 ELSE c

----------------------------------------------------------------------------
(* The record of the last operation *)

Op(name, keys, before, val, cfg) == [op |-> name, keys |-> keys, before |-> before, val |-> val, cfg |-> cfg, req |-> NoReq]

NoSvc == [made |-> FALSE, baseUrl |-> "", username |-> "", password |-> ""]

\* concurrent invocations the model follows
MaxTasks == 2

Tasks == 1..MaxTasks

IdleTasks == [t \in Tasks |-> IdleTask]

LoaderFrame == UNCHANGED <<svc, svcCfg, tasks, logsDir, running, calls>>

----------------------------------------------------------------------------
(* The sequential loader and the bootstrap *)

\* an edit of the backing source by its owner: one key set, changed or removed,
\* or the source itself removed or created empty
EditSource ==
    /\ \/ \E k \in Keys, v \in Slot :
             /\ file.exists
             /\ v # file.vars[k]
             /\ file' = [file EXCEPT !.vars[k] = v]
       \/ file' = [exists |-> ~file.exists, vars |-> NoVars]
    /\ lastOp' = Op("edit", {}, NoVars, Absent, NoCfg)
    /\ UNCHANGED <<env, boot>>
    /\ LoaderFrame

\* a call reloadEnv(undefined, keys), keys one of keySets
ReloadEnvOf(keySets) ==
    /\ boot = "started"
    /\ \E keys \in keySets :
          /\ env' = reloadEnv(env, file, keys)
          /\ lastOp' = Op("reloadEnv", keys, env, Absent, NoCfg)
    /\ UNCHANGED <<file, boot>>
    /\ LoaderFrame

\* reloadEnv with any varsToReset
ReloadEnv == ReloadEnvOf(SUBSET Keys)

\* reloadEnv() with the default varsToReset
ReloadEnvDefault == ReloadEnvOf({JiraVars})

\* a call getEnvVar(varName, defaultValue)
GetEnvVar ==
    /\ boot = "started"
    /\ \E k \in Keys, d \in {Absent, <<"dflt">>} :
          LET r == getEnvVar(env, file, k, d)
          IN  /\ env' = r.env
              /\ lastOp' = Op("getEnvVar", {k}, NoVars, r.val, NoCfg)
    /\ UNCHANGED <<file, boot>>
    /\ LoaderFrame

\* a call getJiraConfig()
GetJiraConfig ==
    /\ boot = "started"
    /\ LET r == getJiraConfig(env, file)
       IN  /\ env' = r.env
           /\ lastOp' = Op("getJiraConfig", JiraVars, env, Absent, r.cfg)
    /\ UNCHANGED <<file, boot>>
    /\ LoaderFrame

\* index.ts: const env = reloadEnv()
BootReload ==
    /\ boot = "init"
    /\ env' = reloadEnv(env, file, JiraVars)
    /\ boot' = "loaded"
    /\ lastOp' = Op("reloadEnv", JiraVars, env, Absent, NoCfg)
    /\ UNCHANGED file
    /\ LoaderFrame

\* index.ts: const jiraConfig = getJiraConfig(); an uncaught throw ends the process.
\* The three checks that follow exit(1) on a falsy credential.
BootGetConfig ==
    /\ boot = "loaded"
    /\ LET r == getJiraConfig(env, file)
       IN  /\ env' = r.env
           /\ lastOp' = Op("getJiraConfig", JiraVars, env, Absent, r.cfg)
           /\ boot' = IF r.cfg.threw \/ r.cfg.baseUrl = "" \/ r.cfg.username = "" \/ r.cfg.apiToken = ""
                      THEN "crashed"
                      ELSE "configured"
    /\ UNCHANGED file
    /\ LoaderFrame

\* index.ts: new JiraMcpServer(); start()
BootStart ==
    /\ boot = "configured"
    /\ boot' = "started"
    /\ lastOp' = Op("start", {}, NoVars, Absent, NoCfg)
    /\ UNCHANGED <<env, file>>
    /\ LoaderFrame

Init ==
    /\ env \in Envs
    /\ file \in Files
    /\ boot = "init"
    /\ svc = NoSvc
    /\ svcCfg = NoCfg
    /\ lastOp = Op("none", {}, NoVars, Absent, NoCfg)
    /\ tasks = IdleTasks
    /\ logsDir = FALSE
    /\ running = 0
    /\ calls = IdleCalls

Next ==
    \/ EditSource
    \/ ReloadEnv
    \/ GetEnvVar
    \/ GetJiraConfig
    \/ BootReload
    \/ BootGetConfig
    \/ BootStart

Spec == Init /\ [][Next]_vars

----------------------------------------------------------------------------
(* Properties of the loader and of the bootstrap *)

\* what the backing source defines for key k
SourceVal(k) == IF file.exists THEN file.vars[k] ELSE Absent

SourceComplete == \A k \in JiraVars : SourceVal(k) # Absent /\ SourceVal(k) # <<"">>

SourceCreds == [threw |-> FALSE,
                baseUrl |-> SourceVal("JIRA_BASE_URL")[1],
                username |-> SourceVal("JIRA_USERNAME")[1],
                apiToken |-> SourceVal("JIRA_API_TOKEN")[1]]

\* C1 (state part): a getJiraConfig() call that returns does so with the three values
\* the backing source holds at the time of the call, whatever process.env held before;
\* it returns whenever the source holds all three.
C1_ReadsSource ==
    lastOp.op = "getJiraConfig" =>
        IF SourceComplete THEN lastOp.cfg = SourceCreds ELSE lastOp.cfg.threw

\* C1 (step part): two getJiraConfig() calls, or two reloadEnv calls on the same keys,
\* with no edit of the source in between give the same result.
C1_Repeatable ==
    /\ (lastOp.op = "getJiraConfig" /\ lastOp'.op = "getJiraConfig") => lastOp'.cfg = lastOp.cfg
    /\ (lastOp.op = "reloadEnv" /\ lastOp'.op = "reloadEnv" /\ lastOp'.keys = lastOp.keys) => env' = env

\* C1: every getJiraConfig() call that returns does so with exactly the values the
\* backing source holds at the time of the call: an edit between two calls is seen by
\* the second, and two calls with no edit in between yield the same Credentials.
C1_Fresh == [](C1_ReadsSource) /\ [][C1_Repeatable]_vars

\* a call made after the server started returned a token that differs from the stale
\* one process.env held when the call began
C1_Witness ==
    /\ lastOp.op = "getJiraConfig"
    /\ boot = "started"
    /\ ~lastOp.cfg.threw
    /\ lastOp.before["JIRA_API_TOKEN"] \notin {Absent, <<"">>, <<lastOp.cfg.apiToken>>}

\* the required keys that are absent or empty in process.env
C2_Absent == {k \in {"JIRA_BASE_URL", "JIRA_USERNAME", "JIRA_API_TOKEN"} : env[k] = Absent \/ env[k] = <<"">>}

\* C2: getJiraConfig() throws for every non-empty set of required keys that is absent
\* or empty after the forced reload; with all three present and non-empty it returns
\* them verbatim; it never returns Credentials with an empty field.
C2_FailFast ==
    lastOp.op = "getJiraConfig" =>
        /\ C2_Absent # {} => lastOp.cfg.threw
        /\ C2_Absent = {} =>
              /\ ~lastOp.cfg.threw
              /\ <<lastOp.cfg.baseUrl>> = env["JIRA_BASE_URL"]
              /\ <<lastOp.cfg.username>> = env["JIRA_USERNAME"]
              /\ <<lastOp.cfg.apiToken>> = env["JIRA_API_TOKEN"]
        /\ ~lastOp.cfg.threw =>
              lastOp.cfg.baseUrl # "" /\ lastOp.cfg.username # "" /\ lastOp.cfg.apiToken # ""

\* getJiraConfig() threw although only the user name, defined empty in the source, is missing
C2_Witness ==
    /\ lastOp.op = "getJiraConfig"
    /\ lastOp.cfg.threw
    /\ C2_Absent = {"JIRA_USERNAME"}
    /\ env["JIRA_USERNAME"] = <<"">>

\* C10 (state part): after reloadEnv(path, keys) every key of keys holds what the
\* source defines for it and is absent when the source is missing or does not define
\* it; a key outside keys that was set keeps its value. The bootstrap passes
\* getJiraConfig() only when the source holds all three credentials.
C10_AfterReload ==
    /\ lastOp.op = "reloadEnv" =>
          \A k \in Keys :
             IF k \in lastOp.keys
             THEN env[k] = SourceVal(k)
             ELSE lastOp.before[k] # Absent => env[k] = lastOp.before[k]
    /\ (lastOp.op = "getJiraConfig" /\ boot = "configured") => SourceComplete
    /\ (lastOp.op = "getJiraConfig" /\ boot = "crashed") => ~SourceComplete

\* C10 (step part): the bootstrap's getJiraConfig() fails exactly when the source lacks
\* a credential, and a failed bootstrap never reaches server start.
C10_BootStep ==
    /\ (boot = "loaded" /\ boot' # "loaded") => (boot' = "crashed" <=> ~SourceComplete)
    /\ boot = "crashed" => boot' = "crashed"
    /\ boot' = "started" => boot \in {"configured", "started"}

\* C10: reloadEnv resets the named keys to the source's values, erasing a credential
\* that only the process environment held, so that getJiraConfig() fails and the
\* bootstrap never starts the server; keys outside the reset set keep their values.
C10_ResetErases == [](C10_AfterReload) /\ [][C10_BootStep]_vars

\* the first reload of the bootstrap erased a token the inherited environment held
\* and the source does not define
C10_Witness ==
    /\ boot = "loaded"
    /\ lastOp.op = "reloadEnv"
    /\ \A k \in JiraVars : lastOp.before[k] \notin {Absent, <<"">>}
    /\ SourceVal("JIRA_API_TOKEN") = Absent
    /\ env["JIRA_API_TOKEN"] = Absent

----------------------------------------------------------------------------
(* The client's configuration *)

ClientFrame == UNCHANGED <<tasks, logsDir, running, calls>>

\* new JiraService(): a throwing getJiraConfig() leaves no instance
Construct ==
    /\ boot \in {"configured", "started"}
    /\ ~svc.made
    /\ LET r == getJiraConfig(env, file)
       IN  /\ env' = r.env
           /\ svc' = IF r.cfg.threw THEN svc ELSE Configured(svc, r.cfg)
           /\ svcCfg' = IF r.cfg.threw THEN svcCfg ELSE r.cfg
           /\ lastOp' = Op("constructor", JiraVars, NoVars, Absent, r.cfg)
    /\ UNCHANGED <<file, boot>>
    /\ ClientFrame

\* reloadConfig(): the throw of getJiraConfig() comes before both assignments
ReloadConfig ==
    /\ svc.made
    /\ LET r == getJiraConfig(env, file)
       IN  /\ env' = r.env
           /\ svc' = IF r.cfg.threw THEN svc ELSE Configured(svc, r.cfg)
           /\ svcCfg' = IF r.cfg.threw THEN svcCfg ELSE r.cfg
           /\ lastOp' = Op("reloadConfig", JiraVars, NoVars, Absent, r.cfg)
    /\ UNCHANGED <<file, boot>>
    /\ ClientFrame

\* request(endpoint) of getProjects() or getIssueTypes(), up to the axios call
SendRequest ==
    /\ svc.made
    /\ \E endpoint \in {"/rest/api/2/project", "/rest/api/2/issuetype"} :
          lastOp' = [Op("request", {}, NoVars, Absent, NoCfg) EXCEPT
                        !.req = RequestConfig(svc, endpoint, "GET", NoData)]
    /\ UNCHANGED <<env, file, boot, svc, svcCfg>>
    /\ ClientFrame

NextClient ==
    \/ EditSource
    \/ BootReload
    \/ BootGetConfig
    \/ BootStart
    \/ ReloadEnvDefault
    \/ GetJiraConfig
    \/ Construct
    \/ ReloadConfig
    \/ SendRequest

SpecClient == Init /\ [][NextClient]_vars

\* C9 (state part): the stored triple is the Credentials of the last successful
\* getJiraConfig() of the constructor or of reloadConfig(), and a request goes to
\* that base URL with Basic base64(username:password) of that triple.
C9_Stored ==
    /\ svc.made =>
          /\ ~svcCfg.threw
          /\ svc.baseUrl = svcCfg.baseUrl
          /\ svc.username = svcCfg.username
          /\ svc.password = svcCfg.apiToken
    /\ lastOp.op = "request" =>
          /\ lastOp.req.url \in {svcCfg.baseUrl \o "/rest/api/2/project", svcCfg.baseUrl \o "/rest/api/2/issuetype"}
          /\ lastOp.req.auth = "Basic " \o Base64(Utf8(svcCfg.username) \o <<58>> \o Utf8(svcCfg.apiToken))

\* C9 (step part): only a constructor or reloadConfig() whose getJiraConfig() returned
\* changes the stored triple; a throwing one, a request, an edit of the source or a
\* reload made elsewhere leaves all three fields as they were.
C9_Frame ==
    svc' # svc => (lastOp'.op \in {"constructor", "reloadConfig"} /\ ~lastOp'.cfg.threw)

\* C9: the client's stored (baseUrl, username, password) always equal the Credentials
\* of the most recent successful getJiraConfig() of its constructor or reloadConfig();
\* reloadConfig() replaces all three or throws and changes none; nothing else changes
\* them; every request uses that base URL and Basic base64(username:password).
C9_StoredCredentials == [](C9_Stored) /\ [][C9_Frame]_vars

\* a request signed u:tk while process.env already holds another token
C9_Witness ==
    /\ lastOp.op = "request"
    /\ lastOp.req.url = "tk/rest/api/2/project"
    /\ lastOp.req.auth = "Basic dTp0aw=="
    /\ svc.username = "u"
    /\ svc.password = "tk"
    /\ env["JIRA_API_TOKEN"] = <<"u">>

----------------------------------------------------------------------------
(* The public operations of a configured client, each an asynchronous invocation *)

\* a parsed response body: its errorMessages field (if any) and the rest of it
Body(errorMessages, payload) == [errorMessages |-> errorMessages, payload |-> payload]

Answer(status, data) == [axios |-> ~Is2xx(status), status |-> <<status>>, data |-> data, message |-> "Request failed"]

\* what axios(config) settles with: a 2xx response, a rejected non-2xx response,
\* an AxiosError without a response, an error that is no AxiosError
OkResponses == {Answer(200, <<Body(Absent, "parsed body")>>), Answer(204, Absent)}

ErrorResponses ==
    {Answer(404, <<Body(<<(<<"Issue does not exist">>)>>, "")>>),
     Answer(401, <<Body(<<(<<"Unauthorized", "Login required">>)>>, "")>>),
     Answer(400, <<Body(<<(<<"">>)>>, "")>>),
     Answer(500, <<Body(<<(<<>>)>>, "")>>),
     Answer(403, <<Body(Absent, "Forbidden")>>),
     Answer(503, Absent)}

NoResponses ==
    {[axios |-> TRUE, status |-> Absent, data |-> Absent, message |-> "connect ECONNREFUSED"],
     [axios |-> FALSE, status |-> Absent, data |-> Absent, message |-> "Invalid URL"]}

RequestFrame == UNCHANGED <<env, file, boot, svc, svcCfg, lastOp, running, calls>>

Begin(t, op, issueType, projectKey, maxResults, req) ==
    /\ tasks[t].pc = "idle"
    /\ tasks' = [tasks EXCEPT ![t] = Started(op, issueType, projectKey, maxResults, req)]
    /\ UNCHANGED logsDir
    /\ RequestFrame

\* searchIssues(params): POST /rest/api/2/search with params as the body
searchRequest(s, params) == RequestConfig(s, "/rest/api/2/search", "POST", <<params>>)

GetIssue ==
    \E t \in Tasks, issueKey \in {"PROJ-1"} :
        Begin(t, "getIssue", "", Absent, Absent, RequestConfig(svc, "/rest/api/2/issue/" \o issueKey, "GET", NoData))

SearchIssues ==
    \E t \in Tasks, params \in {[jql |-> "project = ABC", maxResults |-> 5, fields |-> <<"summary">>]} :
        Begin(t, "searchIssues", "", Absent, Absent, searchRequest(svc, params))

GetAssignedIssues ==
    \E t \in Tasks, projectKey \in {Absent, <<"">>, <<"ABC">>}, maxResults \in {Absent, <<0>>, <<10>>} :
        Begin(t, "getAssignedIssues", "", projectKey, maxResults,
              searchRequest(svc, SearchParams(assignedJql(projectKey), OrDefault(maxResults, DefaultMaxResults))))

GetIssuesByType ==
    \E t \in Tasks, issueType \in {"Bug"}, projectKey \in {Absent, <<"">>, <<"ABC">>}, maxResults \in {Absent, <<0>>, <<10>>} :
        Begin(t, "getIssuesByType", issueType, projectKey, maxResults,
              searchRequest(svc, SearchParams(typeJql(issueType, projectKey), OrDefault(maxResults, DefaultMaxResults))))

GetProjects ==
    \E t \in Tasks :
        Begin(t, "getProjects", "", Absent, Absent, RequestConfig(svc, "/rest/api/2/project", "GET", NoData))

GetIssueTypes ==
    \E t \in Tasks :
        Begin(t, "getIssueTypes", "", Absent, Absent, RequestConfig(svc, "/rest/api/2/issuetype", "GET", NoData))

\* the axios call resolves: the response is logged (mkdirSync when logs/ is absent,
\* then writeFileSync, either of which may throw) and returned
Resolve ==
    \E t \in Tasks, r \in OkResponses, fsError \in {"", "mkdirSync", "writeFileSync"} :
        /\ tasks[t].pc = "awaiting"
        /\ fsError = "mkdirSync" => ~logsDir
        /\ tasks' = [tasks EXCEPT ![t] = Logged(tasks[t], r, fsError)]
        /\ logsDir' = (logsDir \/ fsError # "mkdirSync")
        /\ RequestFrame

\* the axios call rejects
Reject ==
    \E t \in Tasks, r \in ErrorResponses \cup NoResponses :
        /\ tasks[t].pc = "awaiting"
        /\ tasks' = [tasks EXCEPT ![t] = Caught(tasks[t], r)]
        /\ UNCHANGED logsDir
        /\ RequestFrame

\* the caller has taken the settled result
Settled ==
    \E t \in Tasks :
        /\ tasks[t].pc = "done"
        /\ tasks' = [tasks EXCEPT ![t] = IdleTask]
        /\ UNCHANGED logsDir
        /\ RequestFrame

\* a started server whose client was built from a complete source
InitRequest ==
    LET f == [exists |-> TRUE,
              vars |-> [k \in Keys |-> IF k = "JIRA_USERNAME" THEN <<"u">> ELSE <<"tk">>]]
        r == getJiraConfig(NoVars, f)
    IN  /\ env = r.env
        /\ file = f
        /\ boot = "started"
        /\ svc = Configured(NoSvc, r.cfg)
        /\ svcCfg = r.cfg
        /\ lastOp = Op("constructor", JiraVars, NoVars, Absent, r.cfg)
        /\ tasks = IdleTasks
        /\ logsDir = FALSE
        /\ running = 0
        /\ calls = IdleCalls

NextRequest ==
    \/ GetIssue
    \/ SearchIssues
    \/ GetAssignedIssues
    \/ GetIssuesByType
    \/ GetProjects
    \/ GetIssueTypes
    \/ Resolve
    \/ Reject
    \/ Settled

SpecRequest == InitRequest /\ [][NextRequest]_vars

----------------------------------------------------------------------------
(* Properties of the public operations *)

\* the invocation of task t has settled after a response with a status outside 2xx
C3_Refused(t) ==
    /\ tasks[t].pc = "done"
    /\ tasks[t].resp.status # Absent
    /\ ~(tasks[t].resp.status[1] \in 200..299)

C3_HasMessages(data) ==
    /\ data # Absent
    /\ data[1].errorMessages # Absent
    /\ data[1].errorMessages[1] # <<>>

\* C3 as stated: a non-2xx status s fails the operation with JiraError{status: s, err: m},
\* m the first entry of errorMessages when the array is present and non-empty and
\* "Unknown error" otherwise.
C3_FirstEntryAlways ==
    \A t \in Tasks :
        C3_Refused(t) =>
            /\ tasks[t].result.kind = "threw"
            /\ tasks[t].result.shape = "JiraError"
            /\ tasks[t].result.status = tasks[t].resp.status
            /\ tasks[t].result.err = IF C3_HasMessages(tasks[t].resp.data)
                                     THEN Head(tasks[t].resp.data[1].errorMessages[1])
                                     ELSE "Unknown error"

\* C3 amended: m is the first entry of errorMessages when the array is present and
\* non-empty and that entry is not the empty string; "Unknown error" otherwise.
C3_FirstNonEmptyEntry ==
    \A t \in Tasks :
        C3_Refused(t) =>
            /\ tasks[t].result.kind = "threw"
            /\ tasks[t].result.shape = "JiraError"
            /\ tasks[t].result.status = tasks[t].resp.status
            /\ tasks[t].result.err = IF /\ C3_HasMessages(tasks[t].resp.data)
                                        /\ Head(tasks[t].resp.data[1].errorMessages[1]) # ""
                                     THEN Head(tasks[t].resp.data[1].errorMessages[1])
                                     ELSE "Unknown error"

\* a 404 with errorMessages ["Issue does not exist"] became JiraError{404, that message}
C3_Witness ==
    \E t \in Tasks :
        /\ C3_Refused(t)
        /\ tasks[t].resp.status = <<404>>
        /\ tasks[t].result.status = <<404>>
        /\ tasks[t].result.err = "Issue does not exist"

\* C4: a request that obtains no response fails with a generic failure that carries
\* the underlying message and has no status; a failed request raises a JiraError
\* (with status) exactly when a response was received, the generic failure otherwise.
C4_TwoShapes ==
    \A t \in Tasks :
        (tasks[t].pc = "done" /\ tasks[t].resp \notin OkResponses) =>
            /\ tasks[t].result.kind = "threw"
            /\ tasks[t].result.shape \in {"JiraError", "Error"}
            /\ tasks[t].result.shape = "JiraError" <=> tasks[t].resp.status # Absent
            /\ tasks[t].result.shape = "JiraError" <=> tasks[t].result.status # Absent
            /\ tasks[t].resp.status = Absent =>
                  tasks[t].result.message = "Failed to make request to Jira API: " \o tasks[t].resp.message

\* a refused connection surfaced as the generic failure, without a status
C4_Witness ==
    \E t \in Tasks :
        /\ tasks[t].pc = "done"
        /\ tasks[t].resp.message = "connect ECONNREFUSED"
        /\ tasks[t].resp.status = Absent
        /\ tasks[t].result.shape = "Error"
        /\ tasks[t].result.status = Absent

C6_LogBestEffort ==
    \A t \in Tasks :
        (tasks[t].pc = "done" /\ tasks[t].resp \in OkResponses) =>
            /\ tasks[t].result.kind = "returned"
            /\ tasks[t].result.value = tasks[t].resp.data

\* the jql the claim describes: base clause, the project clause iff a (non-empty)
\* project key is given, the ordering
C7_Jql(base, projectKey) ==
    base \o (IF projectKey \notin {Absent, <<"">>} THEN " AND project = " \o projectKey[1] ELSE "")
         \o " ORDER BY updated DESC"

C7_Search(t, base) ==
    /\ tasks[t].http = 1
    /\ tasks[t].req.method = "POST"
    /\ tasks[t].req.url = svc.baseUrl \o "/rest/api/2/search"
    /\ tasks[t].req.data =
          <<[jql |-> C7_Jql(base, tasks[t].projectKey),
             maxResults |-> IF tasks[t].maxResults = Absent THEN 50 ELSE tasks[t].maxResults[1],
             fields |-> <<"summary", "description", "status", "issuetype", "priority", "assignee", "project">>]>>

\* C7: getAssignedIssues and getIssuesByType each issue one search whose jql is the base
\* clause, then ' AND project = <projectKey>' iff a project key is given (an empty key
\* counts as none), then ' ORDER BY updated DESC'; maxResults is passed through, 50
\* when omitted; fields is the fixed list.
C7_SearchShape ==
    \A t \in Tasks :
        /\ (tasks[t].pc = "awaiting" /\ tasks[t].op = "getAssignedIssues") =>
              C7_Search(t, "assignee = currentUser()")
        /\ (tasks[t].pc = "awaiting" /\ tasks[t].op = "getIssuesByType") =>
              C7_Search(t, "issuetype = \"" \o tasks[t].issueType \o "\"")

\* getIssuesByType("Bug", "ABC") and getAssignedIssues("ABC", 10) in flight together
C7_Witness ==
    \E t, u \in Tasks :
        /\ tasks[t].pc = "awaiting" /\ tasks[t].op = "getIssuesByType"
        /\ tasks[t].req.data[1].jql = "issuetype = \"Bug\" AND project = ABC ORDER BY updated DESC"
        /\ tasks[t].req.data[1].maxResults = 50
        /\ tasks[u].pc = "awaiting" /\ tasks[u].op = "getAssignedIssues"
        /\ tasks[u].req.data[1].jql = "assignee = currentUser() AND project = ABC ORDER BY updated DESC"
        /\ tasks[u].req.data[1].maxResults = 10

----------------------------------------------------------------------------
(* Concurrent callers on the one JavaScript thread, statement by statement *)

ConcFrame == UNCHANGED <<boot, lastOp, tasks, logsDir>>

\* rotation of the API token in the backing source while calls run
RotateToken ==
    /\ \E v \in Slot :
          /\ v # file.vars["JIRA_API_TOKEN"]
          /\ file' = [file EXCEPT !.vars["JIRA_API_TOKEN"] = v]
    /\ UNCHANGED <<env, svc, svcCfg, running, calls>>
    /\ ConcFrame

\* a callback calls getJiraConfig(), reloadConfig() or getEnvVar(key) and runs the
\* first statement of reloadEnv: the named keys are deleted
CallBegin ==
    /\ running = 0
    /\ \E c \in Calls, fn \in {"getJiraConfig", "reloadConfig", "getEnvVar"} :
          \E keys \in IF fn = "getEnvVar" THEN {{k} : k \in Keys} ELSE {JiraVars} :
             /\ calls[c].pc = "idle"
             /\ env' = Deleted(env, keys)
             /\ calls' = [calls EXCEPT ![c] = [IdleCall EXCEPT !.pc = "config", !.fn = fn, !.keys = keys]]
             /\ running' = threadAfter(c, "delete")
    /\ UNCHANGED <<file, svc, svcCfg>>
    /\ ConcFrame

\* what a call reads from environment e: getJiraConfig (and reloadConfig through it)
\* reads and checks the three keys, getEnvVar(key) returns process.env[key] || undefined
readOf(call, e) ==
    IF call.fn = "getEnvVar"
    THEN LET k == CHOOSE k \in call.keys : TRUE
         IN  [cfg |-> NoCfg, val |-> IF Truthy(e[k]) THEN e[k] ELSE Absent]
    ELSE [cfg |-> credentials(e), val |-> Absent]

\* the second statement: dotenv.config() re-parses the source; expect is history:
\* what the source defines at this moment for the keys of the call
CallConfig ==
    /\ \E c \in Calls :
          /\ calls[c].pc = "config"
          /\ running \in {0, c}
          /\ env' = DotenvConfig(env, file)
          /\ calls' = [calls EXCEPT ![c].pc = "read", ![c].expect = readOf(calls[c], file.vars)]
          /\ running' = threadAfter(c, "config")
    /\ UNCHANGED <<file, svc, svcCfg>>
    /\ ConcFrame

\* the caller reads its keys from process.env, checks them and returns or throws;
\* reloadConfig() then stores what getJiraConfig() returned
CallRead ==
    /\ \E c \in Calls :
          /\ calls[c].pc = "read"
          /\ running \in {0, c}
          /\ LET r == readOf(calls[c], env)
             IN  /\ calls' = [calls EXCEPT ![c].pc = "done", ![c].result = r]
                 /\ svc' = IF calls[c].fn = "reloadConfig" /\ ~r.cfg.threw THEN Configured(svc, r.cfg) ELSE svc
                 /\ svcCfg' = IF calls[c].fn = "reloadConfig" /\ ~r.cfg.threw THEN r.cfg ELSE svcCfg
          /\ running' = threadAfter(c, "return")
    /\ UNCHANGED <<env, file>>
    /\ ConcFrame

\* a tool invocation runs request() up to its await of axios and leaves the thread
ToolAwait ==
    /\ running = 0
    /\ \E c \in Calls :
          /\ calls[c].pc = "idle"
          /\ calls' = [calls EXCEPT ![c] = [IdleCall EXCEPT !.pc = "awaiting", !.fn = "request"]]
          /\ running' = threadAfter(c, "await")
    /\ UNCHANGED <<env, file, svc, svcCfg>>
    /\ ConcFrame

\* the axios call of a tool invocation settles and the invocation runs to its end
ToolSettle ==
    /\ running = 0
    /\ \E c \in Calls :
          /\ calls[c].pc = "awaiting"
          /\ calls' = [calls EXCEPT ![c].pc = "done"]
          /\ running' = threadAfter(c, "return")
    /\ UNCHANGED <<env, file, svc, svcCfg>>
    /\ ConcFrame

\* the caller has taken the result
CallEnd ==
    /\ \E c \in Calls :
          /\ calls[c].pc = "done"
          /\ calls' = [calls EXCEPT ![c] = IdleCall]
    /\ UNCHANGED <<env, file, svc, svcCfg, running>>
    /\ ConcFrame

NextConc ==
    \/ RotateToken
    \/ CallBegin
    \/ CallConfig
    \/ CallRead
    \/ ToolAwait
    \/ ToolSettle
    \/ CallEnd

SpecConc == InitRequest /\ [][NextConc]_vars

\* C8: a reload is one atomic step with respect to other reloads and reads, under any
\* interleaving of tool invocations, reloadConfig, getJiraConfig and getEnvVar calls:
\* no caller reads process.env while another call has deleted its keys and not yet
\* repopulated them, and every call reads, for each of its keys, what the source
\* defined when that same call re-parsed it, so none fails or returns a mixed triple
\* because another reload was in progress.
C8_AtomicReload ==
    \A c \in Calls :
        /\ calls[c].pc \in {"config", "read"} =>
              \A d \in Calls \ {c} : calls[d].pc \notin {"config", "read"}
        /\ calls[c].pc = "done" => calls[c].result = calls[c].expect

\* one caller holds the Credentials it read while a later reloadConfig(), begun after
\* the token was rotated, is between its re-parse and its read
C8_Witness ==
    \E c, d \in Calls :
        /\ calls[c].pc = "done"
        /\ calls[c].fn = "getJiraConfig"
        /\ ~calls[c].result.cfg.threw
        /\ calls[c].result.cfg.apiToken = "u"
        /\ calls[d].pc = "read"
        /\ calls[d].fn = "reloadConfig"
        /\ calls[d].expect.cfg.apiToken = "tk"

====
